---- MODULE Spec2Model ----
(***************************************************************************)
(* Model of three pieces of Shark / Remora:                                *)
(*   - remora::kernels::syrk on the device backend (clBlast/syrk.hpp)      *)
(*   - remora::bindings::dot on the device backend (gpu/dot.hpp)           *)
(*   - shark::Batch<T> and the range adaptation (Data/BatchInterface.h)    *)
(* Each piece has its own specification (SpecSyrk, SpecDot, SpecBatch)     *)
(* over the shared variable tuple; a specification leaves the variables    *)
(* of the other pieces at their idle values.                               *)
(***************************************************************************)
EXTENDS Integers, Sequences, FiniteSets, TLC

VARIABLES
    \* ---- syrk ----
    sPc,          \* "start" | "sizeError" | "returned" | "aborted"
    sIn,          \* the arguments of the call (shapes, orientations, alpha, Upper)
    bufA,         \* backing buffer of A (device memory), 0-based
    bufC,         \* backing buffer of C (device memory), 0-based
    bufC0,        \* bufC as it was before the call
    backendCalls, \* number of clblast::Syrk invocations
    calls,        \* the parameter lists handed to clblast::Syrk, in order
    status,       \* the status code clblast::Syrk returned
    \* ---- dot ----
    dPc,          \* host position: "host" | "waiting"
    vq,           \* the queue each operand lives on
    queues,       \* per queue, the commands issued and not yet executed
    mem,          \* device contents of x and y
    issuedW,      \* per operand, the number of writes issued so far
    doneW,        \* per operand, the number of writes completed so far
    dotRead,      \* what the last executed reduction saw
    result,       \* the value dot stored into result
    nOps,         \* number of commands issued so far
    \* ---- Batch ----
    bPc,          \* "start" | "prepass" | "alloc" | "copy" | "done" | "error" | "crashed"
    bVariant,     \* "arithmetic" | "default" | "dense" | "sparse"
    bOp,          \* "createBatch" | "createBatchFromRange"
    bArg,         \* the blueprint and size, or the range
    batch,        \* the aggregate under construction / returned
    nnz,          \* the non-zero total of the sparse pre-pass
    rowsCopied,   \* rows written into the aggregate by the copy pass
    firstRead     \* range.begin()->size(): "no" (not evaluated), "ok", or
                  \* "undefined" (evaluated on an empty range)

syrkVars  == <<sPc, sIn, bufA, bufC, bufC0, backendCalls, calls, status>>
dotVars   == <<dPc, vq, queues, mem, issuedW, doneW, dotRead, result, nOps>>
batchVars == <<bPc, bVariant, bOp, bArg, batch, nnz, rowsCopied, firstRead>>
vars      == <<syrkVars, dotVars, batchVars>>

None == "none"

-----------------------------------------------------------------------------
(* Bounds of the model *)

MaxDim   == 2   \* matrix extents of syrk range over 1..MaxDim
MaxCoef  == 1   \* A(i,j) = 1 + p*i + q*j with p, q in 0..MaxCoef
MaxAlpha == 2   \* alpha ranges over 0..MaxAlpha
MaxPad   == 1   \* storage offset and leading-dimension padding, 0..MaxPad
NumQueues == 2  \* execution queues of the device, 1..NumQueues
MaxOps   == 4   \* commands the host issues in one run
VecLen   == 2   \* length of the vectors x and y
MaxVal   == 1   \* element values of the Batch inputs range over 0..MaxVal
MaxLen   == 2   \* dimensionality of a vector element, 1..MaxLen
MaxRange == 2   \* number of elements of a range, 0..MaxRange
MaxSize  == 2   \* size argument of createBatch, 0..MaxSize

-----------------------------------------------------------------------------
(* Idle values of the pieces a specification does not exercise *)

SyrkIdle ==
    /\ sPc = "idle" /\ sIn = None /\ bufA = <<>> /\ bufC = <<>> /\ bufC0 = <<>>
    /\ backendCalls = 0 /\ calls = <<>> /\ status = None

DotIdle ==
    /\ dPc = "idle" /\ vq = None /\ queues = None /\ mem = None
    /\ issuedW = None /\ doneW = None /\ dotRead = <<>> /\ result = 0
    /\ nOps = 0

BatchIdle ==
    /\ bPc = "idle" /\ bVariant = None /\ bOp = None /\ bArg = None
    /\ batch = None /\ nnz = 0 /\ rowsCopied = 0 /\ firstRead = "no"


-----------------------------------------------------------------------------
(* syrk: storage of the operands *)

RECURSIVE SumTo(_, _)
\* f[0] + ... + f[n-1]
SumTo(f, n) == IF n = 0 THEN 0 ELSE SumTo(f, n - 1) + f[n - 1]

\* Minor extent of a rows x cols matrix of the given orientation: the run of
\* elements that is contiguous in memory.
MinorDim(orient, rows, cols) == IF orient = "row_major" THEN cols ELSE rows
MajorDim(orient, rows, cols) == IF orient = "row_major" THEN rows ELSE cols

\* The Storage Descriptor raw_storage() yields: offset and leading dimension;
\* the leading dimension is the stride between rows (row-major) or columns
\* (column-major) and may exceed the minor extent.
raw_storage(orient, rows, cols, pad) ==
    [offset |-> pad, leading_dimension |-> MinorDim(orient, rows, cols) + pad]

\* Position of the logical element (i,j) in a buffer laid out with the given
\* orientation, offset and leading dimension.
ElementIndex(orient, st, i, j) ==
    IF orient = "row_major"
    THEN st.offset + i * st.leading_dimension + j
    ELSE st.offset + j * st.leading_dimension + i

\* The buffer that holds the rows x cols matrix elem[i,j]; cells of the
\* buffer that belong to no element hold -1.
MakeBuffer(orient, rows, cols, pad, elem) ==
    LET st   == raw_storage(orient, rows, cols, pad)
        len  == st.offset + MajorDim(orient, rows, cols) * st.leading_dimension
        minor == MinorDim(orient, rows, cols)
    IN [pos \in 0 .. (len - 1) |->
          IF pos < st.offset THEN -1
          ELSE LET maj == (pos - st.offset) \div st.leading_dimension
                   mi  == (pos - st.offset) % st.leading_dimension
               IN IF mi >= minor THEN -1
                  ELSE IF orient = "row_major" THEN elem[maj, mi] ELSE elem[mi, maj]]

\* The logical matrices of a call
AElem(in, i, j) == 1 + in.p * i + in.q * j
CElem(in, i, j) == 1 + i * in.colsC + j

Orientations == {"row_major", "column_major"}

SyrkInputs ==
    [rowsA : 1 .. MaxDim, colsA : 1 .. MaxDim, rowsC : 1 .. MaxDim, colsC : 1 .. MaxDim,
     orientA : Orientations, orientC : Orientations, Upper : BOOLEAN,
     alpha : 0 .. MaxAlpha, p : 0 .. MaxCoef, q : 0 .. MaxCoef, pad : 0 .. MaxPad]

-----------------------------------------------------------------------------
(* syrk: the kernel *)

\* REMORA_SIZE_CHECK(cond): raises the dimension-mismatch failure when cond
\* is false.
REMORA_SIZE_CHECK(cond) == cond

\* The two size checks of syrk; TRUE when both pass.
SizeChecksFirstOnly(in) == REMORA_SIZE_CHECK(in.rowsA = in.rowsC)
SizeChecks(in) ==
    /\ REMORA_SIZE_CHECK(in.rowsA = in.rowsC)
    /\ REMORA_SIZE_CHECK(in.rowsC = in.colsC)

\* geometry information
transAInverted(in) == IF in.orientA = in.orientC THEN "kYes" ELSE "kNo"
transA(in) == IF in.orientA = in.orientC THEN "kNo" ELSE "kYes"

layout(in) == IF in.orientC = "row_major" THEN "kRowMajor" ELSE "kColMajor"

triangular(in) == IF in.Upper THEN "kUpper" ELSE "kLower"

\* The flat parameter list of the backend call
SyrkArguments(in) ==
    LET storageA == raw_storage(in.orientA, in.rowsA, in.colsA, in.pad)
        storageC == raw_storage(in.orientC, in.rowsC, in.colsC, in.pad)
    IN [layout |-> layout(in), triangle |-> triangular(in), a_transpose |-> transA(in),
        n |-> in.rowsC, k |-> in.colsA, alpha |-> in.alpha,
        a_offset |-> storageA.offset, a_ld |-> storageA.leading_dimension,
        beta |-> 1,
        c_offset |-> storageC.offset, c_ld |-> storageC.leading_dimension]

\* A device read; a position outside the buffer reads as 0 (a conformant call
\* never produces one).
DeviceRead(buf, pos) == IF pos \in DOMAIN buf THEN buf[pos] ELSE 0

BackendIndex(lay, off, ld, i, j) ==
    IF lay = "kRowMajor" THEN off + i * ld + j ELSE off + j * ld + i

\* clblast::Syrk, the BLAS xSYRK: on the given triangle of the n x n matrix C,
\*   C := alpha * op(A) * op(A)^T + beta * C
\* where op(A) = A (n x k) for a_transpose = kNo and op(A) = A^T (A is k x n)
\* for a_transpose = kYes; A and C are read in the given layout.  Returns the
\* new contents of C's buffer.
Syrk(a, abuf, cbuf) ==
    LET opA(i, l) ==
            IF a.a_transpose = "kNo"
            THEN DeviceRead(abuf, BackendIndex(a.layout, a.a_offset, a.a_ld, i, l))
            ELSE DeviceRead(abuf, BackendIndex(a.layout, a.a_offset, a.a_ld, l, i))
        inTriangle(i, j) == IF a.triangle = "kUpper" THEN i <= j ELSE i >= j
        cells == {<<i, j>> \in (0 .. (a.n - 1)) \X (0 .. (a.n - 1)) : inTriangle(i, j)}
        posOf(c) == BackendIndex(a.layout, a.c_offset, a.c_ld, c[1], c[2])
        value(c) ==
            LET term == [l \in 0 .. (a.k - 1) |-> opA(c[1], l) * opA(c[2], l)]
            IN a.alpha * SumTo(term, a.k) + a.beta * DeviceRead(cbuf, posOf(c))
    IN [pos \in DOMAIN cbuf |->
          IF \E c \in cells : posOf(c) = pos
          THEN value(CHOOSE c \in cells : posOf(c) = pos)
          ELSE cbuf[pos]]

StatusCodes == {"kSuccess", "kOutOfResources"}

\* The whole of syrk.  The status check at the end is an assert: it aborts in
\* a build without NDEBUG and is compiled out in a build with NDEBUG.
syrk ==
    /\ sPc = "start"
    /\ IF ~SizeChecks(sIn)
       THEN /\ sPc' = "sizeError"
            /\ UNCHANGED <<bufC, backendCalls, calls, status>>
       ELSE \E code \in StatusCodes, NDEBUG \in BOOLEAN :
            LET args == SyrkArguments(sIn) IN
            /\ calls' = Append(calls, args)
            /\ backendCalls' = backendCalls + 1
            /\ bufC' = IF code = "kSuccess" THEN Syrk(args, bufA, bufC) ELSE bufC
            /\ status' = code
            /\ sPc' = IF code = "kSuccess" \/ NDEBUG THEN "returned" ELSE "aborted"
    /\ UNCHANGED <<sIn, bufA, bufC0>>
    /\ UNCHANGED <<dotVars, batchVars>>

InitSyrk ==
    /\ sPc = "start"
    /\ sIn \in SyrkInputs
    /\ bufA = MakeBuffer(sIn.orientA, sIn.rowsA, sIn.colsA, sIn.pad,
                         [i \in 0 .. (sIn.rowsA - 1), j \in 0 .. (sIn.colsA - 1)
                            |-> AElem(sIn, i, j)])
    /\ bufC = MakeBuffer(sIn.orientC, sIn.rowsC, sIn.colsC, sIn.pad,
                         [i \in 0 .. (sIn.rowsC - 1), j \in 0 .. (sIn.colsC - 1)
                            |-> CElem(sIn, i, j)])
    /\ bufC0 = bufC
    /\ backendCalls = 0
    /\ calls = <<>>
    /\ status = None
    /\ DotIdle
    /\ BatchIdle

NextSyrk == syrk

SpecSyrk == InitSyrk /\ [][NextSyrk]_vars

-----------------------------------------------------------------------------
(* syrk: the claims *)

SyrkDimensionMismatch == sIn.rowsA # sIn.rowsC \/ sIn.rowsC # sIn.colsC

\* The logical element (i,j) of C as stored in a buffer of C
CAt(buf, i, j) ==
    buf[ElementIndex(sIn.orientC,
                     raw_storage(sIn.orientC, sIn.rowsC, sIn.colsC, sIn.pad), i, j)]

\* (A * A^T)(i,j) for the logical matrix A of the call
AAt(i, j) ==
    LET term == [l \in 0 .. (sIn.colsA - 1) |-> AElem(sIn, i, l) * AElem(sIn, j, l)]
    IN SumTo(term, sIn.colsA)

InDeclaredHalf(i, j) == IF sIn.Upper THEN i <= j ELSE i >= j

CIndices == (0 .. (sIn.rowsC - 1)) \X (0 .. (sIn.colsC - 1))

\* C1: a call with A.rows # C.rows or C.rows # C.cols ends in the
\* dimension-mismatch failure, the backend call count stays zero and C's
\* backing buffer is what it was before the call.
C1_MismatchFailsBeforeBackend ==
    SyrkDimensionMismatch =>
        /\ backendCalls = 0
        /\ calls = <<>>
        /\ bufC = bufC0
        /\ sPc \in {"start", "sizeError"}

C1_Witness == SyrkDimensionMismatch /\ sPc = "sizeError"

\* The update syrk is to leave in C: the declared half holds
\* C_before + alpha * A * A^T, the opposite half and the cells between the
\* elements hold what they held, and the accumulate coefficient is 1.
SyrkUpdateDone ==
    /\ \A c \in CIndices :
          CAt(bufC, c[1], c[2]) =
              IF InDeclaredHalf(c[1], c[2])
              THEN CElem(sIn, c[1], c[2]) + sIn.alpha * AAt(c[1], c[2])
              ELSE CElem(sIn, c[1], c[2])
    /\ \A pos \in DOMAIN bufC : bufC0[pos] = -1 => bufC[pos] = -1
    /\ sIn.alpha = 0 => bufC = bufC0
    /\ \A n \in DOMAIN calls : calls[n].beta = 1

\* C2: after syrk completes, the declared half of C is
\* C_before + alpha * A * A^T and the opposite half is untouched; with
\* alpha = 0 the whole of C is unchanged.
C2_CompletedCallUpdatesDeclaredHalf ==
    sPc = "returned" => SyrkUpdateDone

\* The same for the calls whose backend routine reported success.
SyrkUpdateOnSuccess ==
    (sPc = "returned" /\ status = "kSuccess") => SyrkUpdateDone

\* C3: syrk never returns normally after the backend reported a status other
\* than success.
C3_NonSuccessNeverReturns ==
    ~(status \in StatusCodes \ {"kSuccess"} /\ sPc = "returned")

\* C9: the parameters handed to the backend are transpose-A = no-transpose
\* exactly when A and C share the orientation, layout from C's orientation
\* alone, triangle from Upper, n = C.rows, k = A.cols; and the backend
\* routine, given them, adds alpha * A * A^T of the logical A to the declared
\* half, whatever the two orientations are.
C9_BackendParameters ==
    \A n \in DOMAIN calls : LET call == calls[n] IN
        /\ (call.a_transpose = "kNo") <=> (sIn.orientA = sIn.orientC)
        /\ call.a_transpose \in {"kNo", "kYes"}
        /\ (call.layout = "kRowMajor") <=> (sIn.orientC = "row_major")
        /\ call.layout \in {"kRowMajor", "kColMajor"}
        /\ (call.triangle = "kUpper") <=> sIn.Upper
        /\ call.triangle \in {"kUpper", "kLower"}
        /\ call.n = sIn.rowsC
        /\ call.k = sIn.colsA
        /\ LET out == Syrk(call, bufA, bufC0)
           IN \A c \in CIndices :
                 InDeclaredHalf(c[1], c[2]) =>
                    CAt(out, c[1], c[2]) - CAt(bufC0, c[1], c[2])
                        = call.alpha * AAt(c[1], c[2])

\* A call with differing orientations, a non-square A and alpha > 0 went out
C9_Witness ==
    /\ calls # <<>>
    /\ sIn.orientA # sIn.orientC
    /\ sIn.rowsA # sIn.colsA
    /\ sIn.p # sIn.q
    /\ sIn.alpha > 0

-----------------------------------------------------------------------------
(* dot on the device backend *)

Operands == {"x", "y"}
Queues   == 1 .. NumQueues

\* The vector a kernel writes: every element holds the number of the write
Filled(k) == [i \in 1 .. VecLen |-> k]

RECURSIVE inner_product(_, _, _)
\* boost::compute::inner_product(first1, last1, first2, init)
inner_product(a, b, init) ==
    IF a = <<>> THEN init
    ELSE inner_product(Tail(a), Tail(b), init + Head(a) * Head(b))

\* The queue dot hands to the reduction
DotQueueOfY == vq["y"]
DotQueue == vq["x"]

\* A kernel that produces operand v is issued on the queue of its
\* destination (as syrk issues on C().queue()); the host does not wait.
IssueWrite(v) ==
    /\ dPc = "host"
    /\ nOps < MaxOps
    /\ queues' = [queues EXCEPT ![vq[v]] =
                    Append(@, [op |-> "write", target |-> v, val |-> issuedW[v] + 1,
                               needX |-> 0, needY |-> 0])]
    /\ issuedW' = [issuedW EXCEPT ![v] = @ + 1]
    /\ nOps' = nOps + 1
    /\ UNCHANGED <<dPc, vq, mem, doneW, dotRead, result>>
    /\ UNCHANGED <<syrkVars, batchVars>>

\* dot(x, y, result): the reduction is issued on x().queue() and the host
\* waits for its value.
dot ==
    /\ dPc = "host"
    /\ nOps < MaxOps
    /\ queues' = [queues EXCEPT ![DotQueue] =
                    Append(@, [op |-> "dot", target |-> "x", val |-> 0,
                               needX |-> issuedW["x"], needY |-> issuedW["y"]])]
    /\ nOps' = nOps + 1
    /\ dPc' = "waiting"
    /\ UNCHANGED <<vq, mem, issuedW, doneW, dotRead, result>>
    /\ UNCHANGED <<syrkVars, batchVars>>

\* The device executes the oldest command of one of its queues: commands of
\* one queue execute in issuance order, commands of different queues in any
\* order.
Execute(q) ==
    /\ queues[q] # <<>>
    /\ LET cmd == Head(queues[q]) IN
       /\ queues' = [queues EXCEPT ![q] = Tail(@)]
       /\ IF cmd.op = "write"
          THEN /\ mem' = [mem EXCEPT ![cmd.target] = Filled(cmd.val)]
               /\ doneW' = [doneW EXCEPT ![cmd.target] = @ + 1]
               /\ UNCHANGED <<dotRead, result, dPc>>
          ELSE /\ result' = inner_product(mem["x"], mem["y"], 0)
               /\ dotRead' = Append(dotRead,
                                [sawX |-> doneW["x"], sawY |-> doneW["y"],
                                 needX |-> cmd.needX, needY |-> cmd.needY,
                                 value |-> inner_product(mem["x"], mem["y"], 0)])
               /\ dPc' = "host"
               /\ UNCHANGED <<mem, doneW>>
    /\ UNCHANGED <<vq, issuedW, nOps>>
    /\ UNCHANGED <<syrkVars, batchVars>>

InitDot ==
    /\ dPc = "host"
    /\ vq \in [Operands -> Queues]
    /\ queues = [q \in Queues |-> <<>>]
    /\ mem = [v \in Operands |-> Filled(0)]
    /\ issuedW = [v \in Operands |-> 0]
    /\ doneW = [v \in Operands |-> 0]
    /\ dotRead = <<>>
    /\ result = 0
    /\ nOps = 0
    /\ SyrkIdle
    /\ BatchIdle

NextDot ==
    \/ \E v \in Operands : IssueWrite(v)
    \/ dot
    \/ \E q \in Queues : Execute(q)

SpecDot == InitDot /\ [][NextDot]_vars

\* C8: no reduction reads x or y before a write to that operand issued
\* before the reduction has completed.
C8_DotReadsAfterEveryPriorWrite ==
    \A n \in DOMAIN dotRead :
        /\ dotRead[n].sawX >= dotRead[n].needX
        /\ dotRead[n].sawY >= dotRead[n].needY

\* C8 as the code has it: the reduction runs on x's queue, so it reads x as
\* the last write issued before it left it, and y likewise when y lives on
\* the queue of x.
C8_DotOrderedOnQueueOfX ==
    \A n \in DOMAIN dotRead :
        /\ dotRead[n].sawX = dotRead[n].needX
        /\ vq["x"] = vq["y"] =>
              /\ dotRead[n].sawY = dotRead[n].needY
              /\ dotRead[n].value = VecLen * dotRead[n].needX * dotRead[n].needY

C8_Witness ==
    \E n \in DOMAIN dotRead :
        /\ dotRead[n].needX > 0
        /\ dotRead[n].needY > 0
        /\ vq["x"] = vq["y"]

-----------------------------------------------------------------------------
(* Batch<T>: inputs and aggregates *)

Values == 0 .. MaxVal

\* A vector element is the sequence of its entries; a sparse vector stores
\* the entries that are not 0.
VectorsOfLen(d) == [1 .. d -> Values]
Vectors == UNION {VectorsOfLen(d) : d \in 1 .. MaxLen}

RangesOver(S) == UNION {[1 .. m -> S] : m \in 0 .. MaxRange}

\* The aggregate types: ublas::vector<T> and std::vector<T> use data alone;
\* ublas::matrix<T> is size1 x size2 with data in row-major order;
\* ublas::compressed_matrix<T> is size1 x size2 in compressed row storage of
\* the given non-zero capacity: row i holds the entries
\* index1[i+1]+1 .. index1[i+2] of index2 (columns) and data (values).
NoBatch ==
    [exists |-> FALSE, size1 |-> 0, size2 |-> 0, capacity |-> 0,
     index1 |-> <<>>, index2 |-> <<>>, data |-> <<>>]

SequenceBatch(d) == [NoBatch EXCEPT !.exists = TRUE, !.size1 = Len(d), !.data = d]

-----------------------------------------------------------------------------
(* detail::DefaultBatch and detail::ArithmeticBatch *)

\* DefaultBatch::createBatch: std::vector<T>(size, input)
DefaultBatchCreate(input, size) == SequenceBatch([i \in 1 .. size |-> input])

\* The number of slots of ublas::vector<T>(size)
ArithmeticSlotsOffByOne(input, size) == size + 1
ArithmeticSlots(input, size) == size

\* ArithmeticBatch::createBatch returns type(size): the elements of the
\* vector are not initialised, so each holds any value.
ArithmeticBatchCreate(input, size) ==
    {SequenceBatch(d) : d \in [1 .. ArithmeticSlots(input, size) -> Values]}

\* DefaultBatch::createBatchFromRange: std::vector<T>(range.begin(), range.end())
DefaultBatchFromRange(range) == SequenceBatch(range)

RECURSIVE CopyElements(_, _, _)
\* std::copy(range.begin(), range.end(), batch.begin()) from position k on
CopyElements(d, range, k) ==
    IF k > Len(range) THEN d
    ELSE CopyElements([d EXCEPT ![k] = range[k]], range, k + 1)

\* ArithmeticBatch::createBatchFromRange: type batch(range.size()), then copy
ArithmeticBatchFromRange(range) ==
    SequenceBatch(CopyElements([i \in 1 .. Len(range) |-> 0], range, 1))

createBatch ==
    /\ bPc = "start"
    /\ bOp = "createBatch"
    /\ \/ /\ bVariant = "default"
          /\ batch' = DefaultBatchCreate(bArg.input, bArg.size)
       \/ /\ bVariant = "arithmetic"
          /\ batch' \in ArithmeticBatchCreate(bArg.input, bArg.size)
    /\ bPc' = "done"
    /\ UNCHANGED <<bVariant, bOp, bArg, nnz, rowsCopied, firstRead>>
    /\ UNCHANGED <<syrkVars, dotVars>>

createBatchFromRangeScalar ==
    /\ bPc = "start"
    /\ bOp = "createBatchFromRange"
    /\ \/ /\ bVariant = "default"
          /\ batch' = DefaultBatchFromRange(bArg.range)
       \/ /\ bVariant = "arithmetic"
          /\ batch' = ArithmeticBatchFromRange(bArg.range)
    /\ bPc' = "done"
    /\ UNCHANGED <<bVariant, bOp, bArg, nnz, rowsCopied, firstRead>>
    /\ UNCHANGED <<syrkVars, dotVars>>

-----------------------------------------------------------------------------
(* The first element's dimensionality *)

\* range.begin()->size().  On an empty range begin() is end() and the read is
\* undefined: the call crashes, or goes on with whatever it read.
FirstElementSizeGuarded(range) ==
    IF range = <<>>
    THEN {[how |-> "ok", crash |-> FALSE, size |-> 0]}
    ELSE {[how |-> "ok", crash |-> FALSE, size |-> Len(range[1])]}
FirstElementSize(range) ==
    IF range = <<>>
    THEN {[how |-> "undefined", crash |-> TRUE, size |-> 0]}
         \cup {[how |-> "undefined", crash |-> FALSE, size |-> g] : g \in 0 .. MaxLen}
    ELSE {[how |-> "ok", crash |-> FALSE, size |-> Len(range[1])]}

-----------------------------------------------------------------------------
(* Batch<blas::vector<T> > and the range adaptation of ublas::matrix<T> *)

\* range_begin(m) and range_end(m): the iterators Iter(m, 0), Iter(m, m.size1())
range_begin(m) == 0
range_endBySize2(m) == m.size2
range_end(m) == m.size1

\* MatrixRowReference: the view of row i (0-based) and the assignment to it
MatrixRow(m, i) == [j \in 1 .. m.size2 |-> m.data[i * m.size2 + j]]

AssignRow(m, i, v) ==
    [m EXCEPT !.data = [pos \in DOMAIN m.data |->
        IF (pos - 1) \div m.size2 = i /\ ((pos - 1) % m.size2) + 1 \in DOMAIN v
        THEN v[((pos - 1) % m.size2) + 1]
        ELSE m.data[pos]]]

RECURSIVE CopyRows(_, _, _)
\* std::copy(range.begin(), range.end(), boost::begin(batch)) from element k on
CopyRows(m, range, k) ==
    IF k > Len(range) THEN m
    ELSE CopyRows(AssignRow(m, range_begin(m) + k - 1, range[k]), range, k + 1)

\* The number of steps from range_begin(m) to range_end(m)
ViewCount(m) == range_end(m) - range_begin(m)

\* The Element Views that iterating m from range_begin to range_end yields
Iterate(m) ==
    [n \in 1 .. ViewCount(m) |-> MatrixRow(m, range_begin(m) + n - 1)]

\* ublas::matrix<T>(size1, size2)
DenseMatrix(size1, size2) ==
    [NoBatch EXCEPT !.exists = TRUE, !.size1 = size1, !.size2 = size2,
                    !.data = [pos \in 1 .. size1 * size2 |-> -1]]

\* Batch<blas::vector<T> >::createBatchFromRange
createBatchFromRangeDense ==
    /\ bPc = "start"
    /\ bOp = "createBatchFromRange"
    /\ bVariant = "dense"
    /\ \E first \in FirstElementSize(bArg.range) :
          /\ firstRead' = first.how
          /\ IF first.crash
             THEN /\ bPc' = "crashed"
                  /\ UNCHANGED <<batch, rowsCopied>>
             ELSE /\ batch' = CopyRows(DenseMatrix(Len(bArg.range), first.size),
                                       bArg.range, 1)
                  /\ rowsCopied' = Len(bArg.range)
                  /\ bPc' = "done"
    /\ UNCHANGED <<bVariant, bOp, bArg, nnz>>
    /\ UNCHANGED <<syrkVars, dotVars>>

-----------------------------------------------------------------------------
(* Batch<compressed_vector<T> > *)

\* nonzeroElements(v): the number of entries v stores
nonzeroElements(v) == Cardinality({j \in DOMAIN v : v[j] # 0})

RECURSIVE NonzeroPass(_, _, _)
\* for(pos = ...; pos != range.end(); ++pos) nnz += nonzeroElements(*pos)
NonzeroPass(range, pos, acc) ==
    IF pos > Len(range) THEN acc
    ELSE NonzeroPass(range, pos + 1, acc + nonzeroElements(range[pos]))

\* The pre-pass over the whole range, from range.begin() with nnz = 0
NonzeroPrePassSkippingFirst(range) == NonzeroPass(range, 2, 0)
NonzeroPrePass(range) == NonzeroPass(range, 1, 0)

\* ublas::compressed_matrix<T>(size1, size2, non_zeros): no entry stored yet
CompressedMatrix(size1, size2, non_zeros) ==
    [NoBatch EXCEPT !.exists = TRUE, !.size1 = size1, !.size2 = size2,
                    !.capacity = non_zeros, !.index1 = <<0>>]

\* Assignment of the sparse vector v to the next row of m: the stored entries
\* of v are appended in index order and the row is closed.
AppendCompressedRow(m, v) ==
    LET IsStored(j) == v[j] # 0
        cols == SelectSeq([j \in 1 .. Len(v) |-> j], IsStored)
        vals == [n \in 1 .. Len(cols) |-> v[cols[n]]]
    IN [m EXCEPT !.index2 = @ \o cols,
                 !.data   = @ \o vals,
                 !.index1 = Append(@, Len(m.index2) + Len(cols))]

\* The row i (0-based) of the compressed matrix m as a vector of m.size2 entries
CompressedRow(m, i) ==
    LET slots == (m.index1[i + 1] + 1) .. m.index1[i + 2]
    IN [j \in 1 .. m.size2 |->
          IF \E n \in slots : m.index2[n] = j
          THEN m.data[CHOOSE n \in slots : m.index2[n] = j]
          ELSE 0]

\* first pass: the non-zero total
SparsePrePass ==
    /\ bPc = "start"
    /\ bOp = "createBatchFromRange"
    /\ bVariant = "sparse"
    /\ nnz' = NonzeroPrePass(bArg.range)
    /\ bPc' = "alloc"
    /\ UNCHANGED <<bVariant, bOp, bArg, batch, rowsCopied, firstRead>>
    /\ UNCHANGED <<syrkVars, dotVars>>

\* type batch(range.size(), range.begin()->size(), nnz)
SparseAllocate ==
    /\ bPc = "alloc"
    /\ \E first \in FirstElementSize(bArg.range) :
          /\ firstRead' = first.how
          /\ IF first.crash
             THEN /\ bPc' = "crashed"
                  /\ UNCHANGED batch
             ELSE /\ batch' = CompressedMatrix(Len(bArg.range), first.size, nnz)
                  /\ bPc' = IF bArg.range = <<>> THEN "done" ELSE "copy"
    /\ UNCHANGED <<bVariant, bOp, bArg, nnz, rowsCopied>>
    /\ UNCHANGED <<syrkVars, dotVars>>

\* second pass, one element of std::copy: the element is assigned to its row.
\* An element of another dimensionality than the row makes the assignment
\* throw in a build with the ublas size checks (the aggregate is destroyed
\* with the call), and is stored as it is in a build without them.
SparseCopyRow ==
    /\ bPc = "copy"
    /\ rowsCopied < Len(bArg.range)
    /\ LET v == bArg.range[rowsCopied + 1] IN
       \E checked \in BOOLEAN :
          IF Len(v) # batch.size2 /\ checked
          THEN /\ bPc' = "error"
               /\ batch' = NoBatch
               /\ UNCHANGED rowsCopied
          ELSE /\ batch' = AppendCompressedRow(batch, v)
               /\ rowsCopied' = rowsCopied + 1
               /\ bPc' = IF rowsCopied + 1 = Len(bArg.range) THEN "done" ELSE "copy"
    /\ UNCHANGED <<bVariant, bOp, bArg, nnz, firstRead>>
    /\ UNCHANGED <<syrkVars, dotVars>>

-----------------------------------------------------------------------------
(* Batch: the specification *)

SameDimensionality(range) ==
    \A i, j \in DOMAIN range : Len(range[i]) = Len(range[j])

\* The calls: createBatch on a scalar blueprint, createBatchFromRange on a
\* range of scalars, of dense vectors of one length, or of sparse vectors.
BatchCalls ==
    {[variant |-> v, op |-> "createBatch",
      arg |-> [input |-> b, size |-> n, range |-> <<>>]] :
        v \in {"default", "arithmetic"}, b \in Values, n \in 0 .. MaxSize}
    \cup
    {[variant |-> v, op |-> "createBatchFromRange",
      arg |-> [input |-> 0, size |-> 0, range |-> r]] :
        v \in {"default", "arithmetic"}, r \in RangesOver(Values)}
    \cup
    {[variant |-> "dense", op |-> "createBatchFromRange",
      arg |-> [input |-> 0, size |-> 0, range |-> r]] :
        r \in {rr \in RangesOver(Vectors) : SameDimensionality(rr)}}
    \cup
    {[variant |-> "sparse", op |-> "createBatchFromRange",
      arg |-> [input |-> 0, size |-> 0, range |-> r]] :
        r \in RangesOver(Vectors)}

InitBatch ==
    /\ bPc = "start"
    /\ \E c \in BatchCalls :
          /\ bVariant = c.variant
          /\ bOp = c.op
          /\ bArg = c.arg
    /\ batch = NoBatch
    /\ nnz = 0
    /\ rowsCopied = 0
    /\ firstRead = "no"
    /\ SyrkIdle
    /\ DotIdle

NextBatch ==
    \/ createBatch
    \/ createBatchFromRangeScalar
    \/ createBatchFromRangeDense
    \/ SparsePrePass
    \/ SparseAllocate
    \/ SparseCopyRow

SpecBatch == InitBatch /\ [][NextBatch]_vars

-----------------------------------------------------------------------------
(* Batch: the claims *)

\* C4: createBatch(b, s) of an elementary numeric type yields exactly s
\* slots, each equal to b.
C4_SlotsEqualBlueprint ==
    (bOp = "createBatch" /\ bVariant = "arithmetic" /\ bPc = "done") =>
        /\ Len(batch.data) = bArg.size
        /\ \A i \in DOMAIN batch.data : batch.data[i] = bArg.input

\* C4 as the code has it: createBatch(b, s) of an elementary numeric type
\* yields an aggregate of exactly s slots (their values are not set from b).
C4_ExactlySizeSlots ==
    (bOp = "createBatch" /\ bVariant = "arithmetic" /\ bPc = "done") =>
        /\ batch.exists
        /\ Len(batch.data) = bArg.size
        /\ batch.size1 = bArg.size

C4_Witness ==
    /\ bOp = "createBatch" /\ bVariant = "arithmetic" /\ bPc = "done"
    /\ bArg.size >= 2
    /\ \E i \in DOMAIN batch.data : batch.data[i] # bArg.input

\* The fallback variant fills size copies of the blueprint.
DefaultCreateFillsCopies ==
    (bOp = "createBatch" /\ bVariant = "default" /\ bPc = "done") =>
        batch.data = [i \in 1 .. bArg.size |-> bArg.input]

\* C5: from a non-empty range of m dense vectors of length d,
\* createBatchFromRange yields m slots of dimensionality d, and iterating the
\* aggregate from range_begin to range_end yields m views, the i-th equal to
\* the i-th vector of the range.
C5_DenseRangeRoundTrip ==
    (bOp = "createBatchFromRange" /\ bVariant = "dense" /\ bPc = "done"
        /\ bArg.range # <<>>) =>
        /\ batch.size1 = Len(bArg.range)
        /\ batch.size2 = Len(bArg.range[1])
        /\ ViewCount(batch) = Len(bArg.range)
        /\ Len(Iterate(batch)) = Len(bArg.range)
        /\ \A i \in DOMAIN bArg.range : Iterate(batch)[i] = bArg.range[i]

C5_Witness ==
    /\ bOp = "createBatchFromRange" /\ bVariant = "dense" /\ bPc = "done"
    /\ Len(bArg.range) = 2
    /\ Len(bArg.range[1]) = 2
    /\ bArg.range[1] # bArg.range[2]
    /\ bArg.range[1][1] # bArg.range[1][2]

\* The stored entries of a range, counted one by one
StoredEntries(range) ==
    {<<i, j>> \in (1 .. MaxRange) \X (1 .. MaxLen) :
        i \in DOMAIN range /\ j \in DOMAIN range[i] /\ range[i][j] # 0}

SparseCase == bOp = "createBatchFromRange" /\ bVariant = "sparse"

\* C6: from a non-empty range of sparse vectors of one dimensionality, the
\* non-zero storage of the aggregate is exactly the sum of the non-zero
\* counts of the elements, known when the first pass ends and before the
\* aggregate exists; the rows of the aggregate are the elements of the range,
\* pattern and values, in order.
C6_SparseStorageAndRoundTrip ==
    (SparseCase /\ bArg.range # <<>> /\ SameDimensionality(bArg.range)) =>
        /\ bPc = "alloc" =>
              /\ nnz = Cardinality(StoredEntries(bArg.range))
              /\ ~batch.exists
        /\ bPc \in {"copy", "done"} =>
              /\ batch.capacity = Cardinality(StoredEntries(bArg.range))
              /\ Len(batch.data) <= batch.capacity
        /\ bPc = "done" =>
              /\ batch.size1 = Len(bArg.range)
              /\ batch.size2 = Len(bArg.range[1])
              /\ Len(batch.data) = batch.capacity
              /\ \A i \in DOMAIN bArg.range :
                    CompressedRow(batch, i - 1) = bArg.range[i]

C6_Witness ==
    /\ SparseCase /\ bPc = "done"
    /\ Len(bArg.range) = 2
    /\ SameDimensionality(bArg.range)
    /\ Len(bArg.range[1]) = 2
    /\ nonzeroElements(bArg.range[1]) = 1
    /\ nonzeroElements(bArg.range[2]) = 2

\* C7: a range with two elements of differing dimensionality is rejected
\* before the copy pass: no row is ever copied and no aggregate is returned.
C7_InconsistentRangeRejected ==
    (SparseCase /\ ~SameDimensionality(bArg.range)) =>
        /\ rowsCopied = 0
        /\ bPc # "done"

\* C10: on an empty range the elementary-numeric and the fallback variant
\* return an aggregate of zero slots; the dense and the sparse variant read
\* the size of the first element all the same, the sparse one after its
\* pre-pass ended with total 0.
C10_EmptyRange ==
    (bOp = "createBatchFromRange" /\ bArg.range = <<>>) =>
        /\ (bVariant \in {"default", "arithmetic"} /\ bPc # "start") =>
              /\ bPc = "done"
              /\ batch.exists
              /\ batch.size1 = 0 /\ batch.data = <<>>
              /\ firstRead = "no"
        /\ (bVariant = "dense" /\ bPc # "start") =>
              /\ firstRead = "undefined"
              /\ bPc \in {"crashed", "done"}
        /\ (bVariant = "sparse" /\ bPc = "alloc") =>
              /\ nnz = 0
              /\ firstRead = "no"
        /\ (bVariant = "sparse" /\ bPc \notin {"start", "alloc"}) =>
              /\ nnz = 0
              /\ firstRead = "undefined"
              /\ bPc \in {"crashed", "done"}

C10_Witness ==
    /\ bOp = "createBatchFromRange" /\ bArg.range = <<>>
    /\ bVariant = "sparse"
    /\ firstRead = "undefined"
    /\ bPc = "done"

=============================================================================
